---------------------------- MODULE Spec2Model ----------------------------
(***************************************************************************)
(* A model of src/src/plugin-hooker.ts: the PluginHooker facade (the       *)
(* shared watch session over an IPackageFinder), the streams it hands out  *)
(* (watch(hook) = subject.mergeMap(getImplementations), packagesStream =   *)
(* subject.map(metadata)), the one-shot load(hook), and the resolver       *)
(* getImplementations, stepped from one awaited pkg.load to the next.      *)
(*                                                                         *)
(* The Package Source (IPackageFinder), the packages' loaders and the      *)
(* consumers are the environment: their inputs are drawn from small sets.  *)
(* They keep to their interface: a cancellation function returns normally  *)
(* and a cancelled listener is not invoked again.                          *)
(***************************************************************************)
EXTENDS Naturals, Sequences, FiniteSets

VARIABLES
    activeWatch,   \* PluginHooker.activeWatch: NoWatch, or [close, subject]
    subjects,      \* subjects[s]: the value held by the s-th BehaviorSubject
    watchCalls,    \* how many times finder.watch has been called
    closeCalls,    \* closeCalls[s]: invocations of the s-th cancellation function
    findCalls,     \* how many times finder.find has been called
    updates,       \* the package lists the finder has delivered, in order
    subscribers,   \* the consumers that subscribed to one of the streams
    passes,        \* the getImplementations calls awaiting a pkg.load
    loads,         \* the load(hook) calls and their outcome
    demands,       \* how many times watch(hook) / packagesStream were called
    stops,         \* how many times stopWatching() was called
    failed,        \* the finder.watch subscriptions whose source failed for good
    returns,       \* the results of the passes of load(hook) calls that returned,
                   \* whose await in load (line 117) has yet to resume
    emissions,     \* the results of the passes that returned, which mergeMap has
                   \* yet to emit: the microtasks queued by its promise.then
    scope          \* what is explored: the lists the Package Source can produce
                   \* and how many calls of each kind are made

vars == << activeWatch, subjects, watchCalls, closeCalls, findCalls, updates,
           subscribers, passes, loads, demands, stops, failed, returns, emissions, scope >>

--------------------------------------------------------------------------
(* Bounds of the exploration. *)

\* The session model: demands, stops, deliveries, consumers.
MaxDemands == 2
MaxStops == 2
SessionUpdates == 1
SessionSubscribers == 1

\* The stream model, of one session: deliveries, consumers.
StreamUpdates == 2
StreamSubscribers == 1

\* The consumer model, of one session: deliveries, consumers.
ConsumerUpdates == 1
ConsumerSubscribers == 2

\* The load model, next to one session: load(hook) calls, deliveries, consumers.
MaxLoads == 1
LoadUpdates == 1
LoadSubscribers == 1

\* The resolver model: packages in a list.
MaxPkgs == 2

\* The failure model, of one session: deliveries, consumers.
FailureUpdates == 1
FailureSubscribers == 1

\* The pass model, of one session: deliveries, consumers.
PassUpdates == 2
PassSubscribers == 1

\* The find model: load(hook) calls.
FindLoads == 2

--------------------------------------------------------------------------
(* Values of the environment. *)

\* activeWatch === undefined
NoWatch == [close |-> 0, subject |-> 0]

\* The value of a promise resolved with nothing, or of an absent property.
Undefined == "undefined"

\* The stream kind of packagesStream, next to the hooks of watch(hook).
Meta == "$metadata"

Hooks == {"render", "lint"}

\* A hook no package of the model implements.
UnknownHook == "unknown-hook"

Range(s) == {s[i] : i \in 1..Len(s)}

\* An IPackage: id, metadata, extensions and the loader, given as the
\* settlement of pkg.load for each of its descriptors.
Pkg(id, exts, outs) ==
    [id |-> id,
     metadata |-> [name |-> id],
     extensions |-> exts,
     load |-> [e \in Range(exts) |->
                  outs[CHOOSE i \in 1..Len(exts) : exts[i] = e]]]

Resolves(v) == [ok |-> TRUE, v |-> v]
Rejects(e) == [ok |-> FALSE, v |-> e]

ExtX == [hook |-> "render", name |-> "x"]
ExtY == [hook |-> "render", name |-> "y"]
ExtZ == [hook |-> "lint", name |-> "z"]
ExtW == [hook |-> "render", name |-> "w"]

PkgA == Pkg("pkgA", <<ExtX>>, <<Resolves("R1")>>)
PkgB == Pkg("pkgB", <<ExtY, ExtZ>>, <<Rejects("boom"), Resolves("R2")>>)
PkgC == Pkg("pkgC", <<ExtZ, ExtY, ExtW>>,
            <<Rejects("bang"), Rejects("boom"), Resolves("R3")>>)
PkgD == Pkg("pkgD", <<>>, <<>>)
PkgE == Pkg("pkgE", <<ExtW, ExtX>>, <<Resolves("R4"), Rejects("bust")>>)

\* The lists a watched Package Source delivers in the session model.
WatchLists == {<<PkgA>>, <<PkgA, PkgB>>}

\* The lists the resolver is run on in the resolver model.
ResolvePkgs == {PkgA, PkgB, PkgC, PkgD, PkgE}

SeqsUpTo(S, n) == UNION {[1..k -> S] : k \in 0..n}

ResolveLists == SeqsUpTo(ResolvePkgs, MaxPkgs)

\* A descriptor with a further field of its own, named error
\* (IExtensionInfo, line 44: [index: string]: any).
ExtV == [hook |-> "render", name |-> "v", error |-> "stale"]
ExtU == [hook |-> "lint", name |-> "u"]

\* A package whose loader resolves for ExtV, and one whose loader resolves
\* with nothing (Promise<any>, line 8).
PkgF == Pkg("pkgF", <<ExtV>>, <<Resolves("R5")>>)
PkgG == Pkg("pkgG", <<ExtU>>, <<Resolves(Undefined)>>)

\* The lists of the variant model.
VariantLists == SeqsUpTo({PkgA, PkgB, PkgF, PkgG}, MaxPkgs)

\* The list delivered, and found by finder.find(), in the load model.
LoadLists == {<<PkgA, PkgB>>}

\* The snapshots finder.find() resolves with in the find model.
FindLists == {<<PkgB>>, <<PkgA, PkgB>>}

\* What finder.find() may settle with: a list, or a discovery failure.
FindError == "find failed"

--------------------------------------------------------------------------
(* getImplementations, lines 74-97. *)

\* { ...a, ...b }
Spread(a, b) ==
    [k \in DOMAIN a \cup DOMAIN b |-> IF k \in DOMAIN b THEN b[k] ELSE a[k]]

\* The extensions of the package without the filter of line 78.
ContentsUnfiltered(pkg, hook) == pkg.extensions

\* pkg.extensions.filter((extInfo) => extInfo.hook === hook)
Contents(pkg, hook) == SelectSeq(pkg.extensions, LAMBDA e : e.hook = hook)

\* The for loop over packages: the first package at or after i whose
\* filtered contents are not empty, 0 when the loop runs out.
NextPkg(packages, hook, i) ==
    LET js == {j \in i..Len(packages) : Contents(packages[j], hook) # <<>>}
    IN  IF js = {} THEN 0 ELSE CHOOSE j \in js : \A k \in js : j <= k

\* The descriptor whose load the pass is awaiting.
Awaited(p) == Contents(p.packages[p.pkg], p.hook)[p.ext]

\* The extension pushed when the awaited load settles with outcome o:
\* the try branch (lines 82-86) or the catch branch (lines 88-92).
Pushed(extInfo, pkg, o) ==
    IF o.ok
    THEN Spread(extInfo, [packageId |-> pkg.id, value |-> o.v])
    ELSE Spread(extInfo, [error |-> o.v, packageId |-> pkg.id])

\* The call runs up to its first await: position 0 means it returned.
Begin(packages, hook) ==
    [packages |-> packages, hook |-> hook,
     pkg |-> NextPkg(packages, hook, 1), ext |-> 1, extensions |-> <<>>]

\* A loop without the try / catch of lines 81-93: a failed load ends it.
ResumeAbortsOnError(p) ==
    LET pkg == p.packages[p.pkg]
        o == pkg.load[Awaited(p)]
        exts == Append(p.extensions, Pushed(Awaited(p), pkg, o))
    IN  IF ~o.ok
        THEN [p EXCEPT !.pkg = 0, !.ext = 1]
        ELSE IF p.ext < Len(Contents(pkg, p.hook))
             THEN [p EXCEPT !.ext = p.ext + 1, !.extensions = exts]
             ELSE [p EXCEPT !.pkg = NextPkg(p.packages, p.hook, p.pkg + 1),
                            !.ext = 1, !.extensions = exts]

\* A loop that does not await: it goes on to invoke the next loader while
\* the load it started is still pending.
ResumeEager(p) ==
    LET pkg == p.packages[p.pkg]
    IN  IF p.ext < Len(Contents(pkg, p.hook))
        THEN [p EXCEPT !.ext = p.ext + 1]
        ELSE [p EXCEPT !.pkg = NextPkg(p.packages, p.hook, p.pkg + 1), !.ext = 1]

\* A loop that puts each extension in front (unshift for push).
ResumePrepends(p) ==
    LET pkg == p.packages[p.pkg]
        exts == <<Pushed(Awaited(p), pkg, pkg.load[Awaited(p)])>> \o p.extensions
    IN  IF p.ext < Len(Contents(pkg, p.hook))
        THEN [p EXCEPT !.ext = p.ext + 1, !.extensions = exts]
        ELSE [p EXCEPT !.pkg = NextPkg(p.packages, p.hook, p.pkg + 1),
                       !.ext = 1, !.extensions = exts]

\* The awaited load settles; the loop moves to the next matching descriptor.
Resume(p) ==
    LET pkg == p.packages[p.pkg]
        exts == Append(p.extensions, Pushed(Awaited(p), pkg, pkg.load[Awaited(p)]))
    IN  IF p.ext < Len(Contents(pkg, p.hook))
        THEN [p EXCEPT !.ext = p.ext + 1, !.extensions = exts]
        ELSE [p EXCEPT !.pkg = NextPkg(p.packages, p.hook, p.pkg + 1),
                       !.ext = 1, !.extensions = exts]

Returned(p) == p.pkg = 0

--------------------------------------------------------------------------
(* The type predicates, lines 163-174. *)

isLoaded(ext) == "value" \in DOMAIN ext /\ ext.value # Undefined

isErrored(ext) == "error" \in DOMAIN ext /\ ext.error # Undefined

--------------------------------------------------------------------------
(* The session, lines 99-155. *)

\* get isWatching
isWatching == activeWatch # NoWatch

\* The finder.watch subscriptions that were established and not cancelled.
LiveSubscriptions == {s \in 1..Len(subjects) : closeCalls[s] = 0}

\* The index in updates of the list the s-th subject holds, 0 for the
\* initial value.
LastUpdate(s) ==
    LET ks == {k \in 1..Len(updates) : updates[k].session = s}
    IN  IF ks = {} THEN 0 ELSE CHOOSE k \in ks : \A j \in ks : j <= k

\* A projection that lists the metadata last package first.
MetadataReversed(packages) ==
    [i \in 1..Len(packages) |-> packages[Len(packages) + 1 - i].metadata]

\* packages.map((pkg) => pkg.metadata)
Metadata(packages) == [i \in 1..Len(packages) |-> packages[i].metadata]

\* A pass of a watch(hook) subscriber (sub) or of a load(hook) call (call).
Pass(sub, call, upd, p) ==
    [sub |-> sub, call |-> call, upd |-> upd, packages |-> p.packages,
     hook |-> p.hook, pkg |-> p.pkg, ext |-> p.ext, extensions |-> p.extensions]

Emission(upd, value) == [upd |-> upd, value |-> value]

\* subject.next(packages) as seen by a subscriber of that subject: the map
\* of packagesStream emits at once; the mergeMap of watch(hook) calls
\* getImplementations and emits nothing in this step: it subscribes to the
\* promise with then, whose callback runs in a later microtask.
Received(sub, upd, packages) ==
    IF sub.attached /\ sub.hook = Meta
    THEN [sub EXCEPT !.got = Append(@, Emission(upd, Metadata(packages)))]
    ELSE sub

\* The result of a pass of consumer i that returned, queued for emission.
Result(i, upd, value) == [sub |-> i, upd |-> upd, value |-> value]

\* The getImplementations call made for consumer i finds no load to await
\* and returns in the same step: its promise is resolved with the empty
\* list and the callback of mergeMap is queued.
Queued(i, sub, upd, packages) ==
    IF sub.attached /\ sub.hook # Meta /\ Returned(Begin(packages, sub.hook))
    THEN <<Result(i, upd, <<>>)>>
    ELSE <<>>

Started(i, sub, upd, packages) ==
    IF sub.attached /\ sub.hook # Meta /\ ~Returned(Begin(packages, sub.hook))
    THEN {Pass(i, 0, upd, Begin(packages, sub.hook))}
    ELSE {}

\* A getter that assigns activeWatch before it calls finder.watch: a call
\* that throws leaves a session stored.
PackageSubjectStoresFirst(outcome, first) ==
    /\ activeWatch = NoWatch
    /\ watchCalls' = watchCalls + 1
    /\ LET s == Len(subjects) + 1 IN
       IF outcome = "throws"
       THEN /\ activeWatch' = [close |-> s, subject |-> s]
            /\ UNCHANGED << subjects, closeCalls, updates >>
       ELSE /\ activeWatch' = [close |-> s, subject |-> s]
            /\ closeCalls' = Append(closeCalls, 0)
            /\ IF first = <<"none">>
               THEN /\ subjects' = Append(subjects, <<>>)
                    /\ UNCHANGED updates
               ELSE /\ Len(updates) < scope.updates
                    /\ subjects' = Append(subjects, first[2])
                    /\ updates' = Append(updates, [session |-> s, packages |-> first[2]])

\* A getter that gives the new subject the list the last one held.
PackageSubjectCarriesOver(outcome, first) ==
    /\ activeWatch = NoWatch
    /\ watchCalls' = watchCalls + 1
    /\ IF outcome = "throws"
       THEN UNCHANGED << activeWatch, subjects, closeCalls, updates >>
       ELSE LET s == Len(subjects) + 1 IN
            /\ activeWatch' = [close |-> s, subject |-> s]
            /\ closeCalls' = Append(closeCalls, 0)
            /\ IF first = <<"none">>
               THEN /\ subjects' = Append(subjects, IF s = 1 THEN <<>> ELSE subjects[s - 1])
                    /\ UNCHANGED updates
               ELSE /\ Len(updates) < scope.updates
                    /\ subjects' = Append(subjects, first[2])
                    /\ updates' = Append(updates, [session |-> s, packages |-> first[2]])

\* get packageSubject while Idle, lines 151-154, with what the finder does
\* inside finder.watch: it throws, or it returns the cancellation function,
\* having called the listener with a first list or not yet (first).
PackageSubjectIdle(outcome, first) ==
    /\ activeWatch = NoWatch
    /\ watchCalls' = watchCalls + 1
    /\ IF outcome = "throws"
       THEN UNCHANGED << activeWatch, subjects, closeCalls, updates >>
       ELSE LET s == Len(subjects) + 1 IN
            /\ activeWatch' = [close |-> s, subject |-> s]
            /\ closeCalls' = Append(closeCalls, 0)
            /\ IF first = <<"none">>
               THEN /\ subjects' = Append(subjects, <<>>)
                    /\ UNCHANGED updates
               ELSE /\ Len(updates) < scope.updates
                    /\ subjects' = Append(subjects, first[2])
                    /\ updates' = Append(updates, [session |-> s, packages |-> first[2]])

\* A getter without lines 147-149: it subscribes again while Active.
PackageSubjectNoReuse ==
    /\ activeWatch # NoWatch
    /\ watchCalls' = watchCalls + 1
    /\ activeWatch' = [close |-> Len(subjects) + 1, subject |-> Len(subjects) + 1]
    /\ subjects' = Append(subjects, <<>>)
    /\ closeCalls' = Append(closeCalls, 0)
    /\ UNCHANGED updates

\* get packageSubject while Active, lines 147-149.
PackageSubjectActive ==
    /\ activeWatch # NoWatch
    /\ UNCHANGED << activeWatch, subjects, watchCalls, closeCalls, updates >>

\* The observables watch(hook) and packagesStream can have handed out: one
\* is the subject it was built on and its kind. While a session is Active
\* a further watch(hook) / packagesStream read changes nothing else, so
\* every one of these can have been obtained while its subject was current.
Streams == {[subject |-> s, kind |-> k] : s \in 1..Len(subjects), k \in scope.kinds}

FirstCalls == {<<"none">>} \cup {<<"list", l>> : l \in scope.lists}

\* A read of packageSubject by watch(hook) (lines 107-110) or by
\* packagesStream (lines 134-137); kind is the hook or Meta.
Demand(kind) ==
    /\ demands < scope.demands
    /\ demands' = demands + 1
    /\ \/ PackageSubjectActive
       \/ \E outcome \in {"throws", "returns"}, first \in FirstCalls :
              PackageSubjectIdle(outcome, first)
    /\ UNCHANGED << findCalls, subscribers, passes, loads, stops, scope, returns, failed, emissions >>

\* watch(hook)
Watch(hook) == Demand(hook)

\* get packagesStream
PackagesStream == Demand(Meta)

\* A stopWatching() without line 126: the session is closed and kept.
StopWatchingKeeps ==
    /\ stops < scope.stops
    /\ stops' = stops + 1
    /\ IF activeWatch # NoWatch
       THEN closeCalls' = [closeCalls EXCEPT ![activeWatch.close] = @ + 1]
       ELSE UNCHANGED closeCalls
    /\ UNCHANGED << activeWatch, subjects, watchCalls, findCalls, updates, subscribers,
                    passes, loads, demands, scope, returns, failed, emissions >>

\* stopWatching(), lines 123-128.
StopWatching ==
    /\ stops < scope.stops
    /\ stops' = stops + 1
    /\ IF activeWatch # NoWatch
       THEN /\ closeCalls' = [closeCalls EXCEPT ![activeWatch.close] = @ + 1]
            /\ activeWatch' = NoWatch
       ELSE UNCHANGED << activeWatch, closeCalls >>
    /\ UNCHANGED << subjects, watchCalls, findCalls, updates, subscribers,
                    passes, loads, demands, scope, returns, failed, emissions >>

\* A subscription to a stream that reads packageSubject when it is
\* subscribed to (a deferred stream): it joins the session of that moment
\* and establishes one when there is none.
SubscribeDeferred(st) ==
    /\ st \in Streams
    /\ Len(subscribers) < scope.subscribers
    /\ LET s == IF activeWatch = NoWatch THEN Len(subjects) + 1 ELSE activeWatch.subject
           held == IF activeWatch = NoWatch THEN <<>> ELSE subjects[s]
           upd == IF activeWatch = NoWatch THEN 0 ELSE LastUpdate(s)
           i == Len(subscribers) + 1
           new == [subject |-> s, hook |-> st.kind, attached |-> TRUE,
                   from |-> upd, got |-> <<>>]
       IN  /\ subscribers' = Append(subscribers, Received(new, upd, held))
           /\ passes' = passes \cup Started(i, new, upd, held)
           /\ emissions' = emissions \o Queued(i, new, upd, held)
           /\ IF activeWatch = NoWatch
              THEN /\ watchCalls' = watchCalls + 1
                   /\ activeWatch' = [close |-> s, subject |-> s]
                   /\ subjects' = Append(subjects, <<>>)
                   /\ closeCalls' = Append(closeCalls, 0)
              ELSE UNCHANGED << activeWatch, subjects, watchCalls, closeCalls >>
    /\ UNCHANGED << findCalls, updates, loads, demands, stops, scope, returns, failed >>

\* A subscription to a stream built on a plain Subject: nothing is replayed.
SubscribeNoReplay(st) ==
    /\ st \in Streams
    /\ Len(subscribers) < scope.subscribers
    /\ subscribers' = Append(subscribers,
                             [subject |-> st.subject, hook |-> st.kind, attached |-> TRUE,
                              from |-> LastUpdate(st.subject), got |-> <<>>])
    /\ UNCHANGED << activeWatch, subjects, watchCalls, closeCalls, findCalls, updates,
                    passes, loads, demands, stops, scope, returns, failed, emissions >>

\* A consumer subscribes to a stream it was handed: the BehaviorSubject
\* replays its value to the new mergeMap / map subscriber.
Subscribe(st) ==
    /\ st \in Streams
    /\ Len(subscribers) < scope.subscribers
    /\ LET i == Len(subscribers) + 1
           upd == LastUpdate(st.subject)
           new == [subject |-> st.subject, hook |-> st.kind, attached |-> TRUE,
                   from |-> upd, got |-> <<>>]
           started == Started(i, new, upd, subjects[st.subject])
       IN  /\ subscribers' = Append(subscribers, Received(new, upd, subjects[st.subject]))
           /\ passes' = passes \cup started
           /\ emissions' = emissions \o Queued(i, new, upd, subjects[st.subject])
    /\ UNCHANGED << activeWatch, subjects, watchCalls, closeCalls, findCalls,
                    updates, loads, demands, stops, scope, returns, failed >>

\* A consumer that cancelled its subscription: what it had received is no
\* longer observed.
Gone == [subject |-> 0, hook |-> "", attached |-> FALSE, from |-> 0, got |-> <<>>]

\* A cancellation that closes the session with its last consumer, as a
\* reference-counted (refCount) stream would.
UnsubscribeRefCounted(i) ==
    /\ i \in 1..Len(subscribers)
    /\ subscribers[i].attached
    /\ subscribers' = [subscribers EXCEPT ![i] = Gone]
    /\ IF activeWatch # NoWatch
          /\ \A j \in 1..Len(subscribers) : j # i => ~subscribers[j].attached
       THEN /\ closeCalls' = [closeCalls EXCEPT ![activeWatch.close] = @ + 1]
            /\ activeWatch' = NoWatch
       ELSE UNCHANGED << activeWatch, closeCalls >>
    /\ emissions' = SelectSeq(emissions, LAMBDA e : e.sub # i)
    /\ UNCHANGED << subjects, watchCalls, findCalls, updates, passes, loads, demands,
                    stops, scope, returns, failed >>

\* A consumer cancels its subscription. The callbacks queued for it will
\* find it closed and emit nothing: they are taken off the queue here. Its
\* passes go on awaiting their loads.
Unsubscribe(i) ==
    /\ i \in 1..Len(subscribers)
    /\ subscribers[i].attached
    /\ subscribers' = [subscribers EXCEPT ![i] = Gone]
    /\ emissions' = SelectSeq(emissions, LAMBDA e : e.sub # i)
    /\ UNCHANGED << activeWatch, subjects, watchCalls, closeCalls, findCalls,
                    updates, passes, loads, demands, stops, scope, returns, failed >>

\* subject.next(packages) calls the observers of subject s in the order in
\* which they subscribed: the results queued by the calls that return at
\* once, in that order.
QueuedAll(s, upd, packages) ==
    LET idx == [i \in 1..Len(subscribers) |-> i]
        sel == SelectSeq(idx, LAMBDA i :
                   /\ subscribers[i].subject = s
                   /\ Queued(i, subscribers[i], upd, packages) # <<>>)
    IN  [n \in 1..Len(sel) |-> Result(sel[n], upd, <<>>)]

\* A delivery to a stream built with switchMap: the passes in flight for
\* the consumers of the subject are dropped.
DeliverSwitching(s, packages) ==
    /\ s \in LiveSubscriptions
    /\ s \notin failed
    /\ packages \in scope.lists
    /\ Len(updates) < scope.updates
    /\ LET upd == Len(updates) + 1
           on == {i \in 1..Len(subscribers) : subscribers[i].subject = s}
           started == UNION {Started(i, subscribers[i], upd, packages) : i \in on}
       IN  /\ updates' = Append(updates, [session |-> s, packages |-> packages])
           /\ subjects' = [subjects EXCEPT ![s] = packages]
           /\ subscribers' = [i \in 1..Len(subscribers) |->
                                IF i \in on
                                THEN Received(subscribers[i], upd, packages)
                                ELSE subscribers[i]]
           /\ passes' = {p \in passes : p.sub \notin on} \cup started
           /\ emissions' = emissions \o QueuedAll(s, upd, packages)
    /\ UNCHANGED << activeWatch, watchCalls, closeCalls, findCalls, loads, demands,
                    stops, scope, returns, failed >>

\* The finder invokes the listener of a live subscription (line 152):
\* subject.next(packages).
Deliver(s, packages) ==
    /\ s \in LiveSubscriptions
    /\ s \notin failed
    /\ packages \in scope.lists
    /\ Len(updates) < scope.updates
    /\ LET upd == Len(updates) + 1
           on == {i \in 1..Len(subscribers) : subscribers[i].subject = s}
           started == UNION {Started(i, subscribers[i], upd, packages) : i \in on}
       IN  /\ updates' = Append(updates, [session |-> s, packages |-> packages])
           /\ subjects' = [subjects EXCEPT ![s] = packages]
           /\ subscribers' = [i \in 1..Len(subscribers) |->
                                IF i \in on
                                THEN Received(subscribers[i], upd, packages)
                                ELSE subscribers[i]]
           /\ passes' = passes \cup started
           /\ emissions' = emissions \o QueuedAll(s, upd, packages)
    /\ UNCHANGED << activeWatch, watchCalls, closeCalls, findCalls, loads, demands,
                    stops, scope, returns, failed >>

\* The source behind a live subscription fails for good. A PackageListener
\* (line 19) takes a package list and nothing else, and the subject of
\* lines 151-152 is given next as its only listener: the failure reaches
\* no code of the PluginHooker, and the finder delivers no more.
SourceFails(s) ==
    /\ s \in LiveSubscriptions
    /\ s \notin failed
    /\ failed' = failed \cup {s}
    /\ UNCHANGED << activeWatch, subjects, watchCalls, closeCalls, findCalls, updates,
                    subscribers, passes, loads, demands, stops, scope, returns, emissions >>

\* The result of the pass of the c-th load(hook) call, which returned.
Return(c, value) == [call |-> c, value |-> value]

\* The load a pass awaits settles. The pass goes on to its next await, or
\* returns: its promise resolves, for load(hook), which awaits it and
\* resumes in a later microtask, or for the mergeMap subscriber, whose
\* callback is queued (when the consumer has cancelled, the callback would
\* emit nothing and is left out).
Settle(p) ==
    /\ p \in passes
    /\ LET q == Resume(p) IN
       IF ~Returned(q)
       THEN /\ passes' = (passes \ {p}) \cup {q}
            /\ UNCHANGED << returns, emissions >>
       ELSE /\ passes' = passes \ {p}
            /\ IF p.sub # 0
               THEN /\ emissions' =
                          IF subscribers[p.sub].attached
                          THEN Append(emissions, Result(p.sub, p.upd, q.extensions))
                          ELSE emissions
                    /\ UNCHANGED returns
               ELSE /\ returns' = Append(returns, Return(p.call, q.extensions))
                    /\ UNCHANGED emissions
    /\ UNCHANGED << activeWatch, subjects, watchCalls, closeCalls, findCalls,
                    updates, subscribers, loads, demands, stops, scope, failed >>

\* The callback mergeMap gave to promise.then runs, the callbacks in the
\* order in which their promises resolved: the result is emitted to the
\* consumer, which is still subscribed (see Unsubscribe).
Emit ==
    /\ emissions # <<>>
    /\ LET e == Head(emissions) IN
       subscribers' = [subscribers EXCEPT ![e.sub].got = Append(@, Emission(e.upd, e.value))]
    /\ emissions' = Tail(emissions)
    /\ UNCHANGED << activeWatch, subjects, watchCalls, closeCalls, findCalls,
                    updates, passes, loads, demands, stops, scope, returns, failed >>

\* A load(hook) that reads the shared packageSubject on its way, and so
\* installs a watcher when there is none.
LoadThroughSession(hook) ==
    /\ Len(loads) < scope.loads
    /\ findCalls' = findCalls + 1
    /\ loads' = Append(loads, [hook |-> hook, state |-> "finding", snapshot |-> <<>>, result |-> <<>>])
    /\ IF activeWatch = NoWatch
       THEN /\ watchCalls' = watchCalls + 1
            /\ activeWatch' = [close |-> Len(subjects) + 1, subject |-> Len(subjects) + 1]
            /\ subjects' = Append(subjects, <<>>)
            /\ closeCalls' = Append(closeCalls, 0)
       ELSE UNCHANGED << activeWatch, subjects, watchCalls, closeCalls >>
    /\ UNCHANGED << updates, subscribers, passes, demands, stops, scope, returns, failed, emissions >>

\* load(hook), lines 116-118: the call up to its await of finder.find().
Load(hook) ==
    /\ Len(loads) < scope.loads
    /\ findCalls' = findCalls + 1
    /\ loads' = Append(loads, [hook |-> hook, state |-> "finding", snapshot |-> <<>>, result |-> <<>>])
    /\ UNCHANGED << activeWatch, subjects, watchCalls, closeCalls, updates,
                    subscribers, passes, demands, stops, scope, returns, failed, emissions >>

\* A load(hook) that catches the failure of finder.find() and rejects with
\* an error of its own.
FindRejectsWrapped(c) ==
    /\ c \in 1..Len(loads)
    /\ loads[c].state = "finding"
    /\ loads' = [loads EXCEPT ![c] = [@ EXCEPT !.state = "rejected", !.result = "load failed"]]
    /\ UNCHANGED << activeWatch, subjects, watchCalls, closeCalls, findCalls,
                    updates, subscribers, passes, demands, stops, scope, returns, failed, emissions >>

\* load(hook) resumes from its await of finder.find(), which rejected: the
\* error is thrown in load(hook), which rejects with it.
FindRejects(c) ==
    /\ c \in 1..Len(loads)
    /\ loads[c].state = "finding"
    /\ loads' = [loads EXCEPT ![c] = [@ EXCEPT !.state = "rejected", !.result = FindError]]
    /\ UNCHANGED << activeWatch, subjects, watchCalls, closeCalls, findCalls,
                    updates, subscribers, passes, demands, stops, scope, returns, failed, emissions >>

\* load(hook) resumes from its await of finder.find(), which resolved:
\* getImplementations runs on the snapshot, up to its first await or, with
\* no load to await, to its return; load(hook) awaits its promise either
\* way, and is pending when the step ends.
FindResolves(c, packages) ==
    /\ c \in 1..Len(loads)
    /\ loads[c].state = "finding"
    /\ packages \in scope.lists
    /\ loads' = [loads EXCEPT ![c] = [@ EXCEPT !.state = "resolving", !.snapshot = packages]]
    /\ LET b == Begin(packages, loads[c].hook) IN
       IF Returned(b)
       THEN /\ returns' = Append(returns, Return(c, <<>>))
            /\ UNCHANGED passes
       ELSE /\ passes' = passes \cup {Pass(0, c, 0, b)}
            /\ UNCHANGED returns
    /\ UNCHANGED << activeWatch, subjects, watchCalls, closeCalls, findCalls,
                    updates, subscribers, demands, stops, scope, failed, emissions >>

\* load(hook) resumes from its await of getImplementations (line 117) and
\* returns the list: its promise is fulfilled. The calls resume in the
\* order in which their passes returned.
LoadResolves ==
    /\ returns # <<>>
    /\ LET r == Head(returns) IN
       loads' = [loads EXCEPT ![r.call] =
                    [@ EXCEPT !.state = "resolved", !.result = r.value]]
    /\ returns' = Tail(returns)
    /\ UNCHANGED << activeWatch, subjects, watchCalls, closeCalls, findCalls,
                    updates, subscribers, passes, demands, stops, scope, failed, emissions >>

--------------------------------------------------------------------------
(* The specifications. *)

\* new PluginHooker(finder)
Constructed ==
    /\ activeWatch = NoWatch
    /\ subjects = <<>>
    /\ watchCalls = 0
    /\ closeCalls = <<>>
    /\ findCalls = 0
    /\ updates = <<>>
    /\ subscribers = <<>>
    /\ passes = {}
    /\ loads = <<>>
    /\ demands = 0
    /\ stops = 0
    /\ failed = {}
    /\ returns = <<>>
    /\ emissions = <<>>

Scope(lists, kinds, hooks, nDemands, nStops, nUpdates, nSubscribers, nLoads) ==
    [lists |-> lists, kinds |-> kinds, hooks |-> hooks, demands |-> nDemands,
     stops |-> nStops, updates |-> nUpdates, subscribers |-> nSubscribers,
     loads |-> nLoads]

Init ==
    /\ Constructed
    /\ scope = Scope(WatchLists, {"lint", Meta}, {}, MaxDemands, MaxStops, SessionUpdates,
                     SessionSubscribers, 0)

\* The session: demands, stops, consumers, deliveries and resolve passes.
Next ==
    \/ \E h \in Hooks : Watch(h)
    \/ PackagesStream
    \/ StopWatching
    \/ \E st \in Streams : Subscribe(st)
    \/ \E i \in 1..Len(subscribers) : Unsubscribe(i)
    \/ \E s \in 1..Len(subjects), l \in scope.lists : Deliver(s, l)
    \/ \E p \in passes : Settle(p)
    \/ Emit

\* load(hook) calls.
NextLoad ==
    \/ \E h \in scope.hooks : Load(h)
    \/ \E c \in 1..Len(loads) : FindRejects(c)
    \/ \E c \in 1..Len(loads), l \in scope.lists : FindResolves(c, l)
    \/ LoadResolves

Spec == Init /\ [][Next]_vars

\* load(hook) calls made next to a session.
InitLoad ==
    /\ Constructed
    /\ scope = Scope(LoadLists, {"lint", Meta}, Hooks, 1, 1, LoadUpdates,
                     LoadSubscribers, MaxLoads)

SpecLoad == InitLoad /\ [][Next \/ NextLoad]_vars

\* One session, its deliveries and its consumers.
InitStream ==
    /\ Constructed
    /\ scope = Scope(WatchLists, {"lint", Meta}, {}, 1, 1, StreamUpdates,
                     StreamSubscribers, 0)

SpecStream == InitStream /\ [][Next]_vars

\* One session and several consumers of its streams.
InitConsumers ==
    /\ Constructed
    /\ scope = Scope(WatchLists, {"lint", Meta}, {}, 1, 1, ConsumerUpdates,
                     ConsumerSubscribers, 0)

SpecConsumers == InitConsumers /\ [][Next]_vars

\* One session and the passes of a consumer of watch("lint"); every
\* pkg.load that is awaited settles.
InitPasses ==
    /\ Constructed
    /\ scope = Scope(WatchLists, {"lint"}, {}, 1, 1, PassUpdates, PassSubscribers, 0)

FairPasses ==
    InitPasses /\ [][Next]_vars /\ WF_vars(\E p \in passes : Settle(p)) /\ WF_vars(Emit)

\* One session whose source can fail for good.
InitFailure ==
    /\ Constructed
    /\ scope = Scope(WatchLists, {"lint", Meta}, {}, 1, 1, FailureUpdates,
                     FailureSubscribers, 0)

NextFailure == \E s \in 1..Len(subjects) : SourceFails(s)

SpecFailure == InitFailure /\ [][Next \/ NextFailure]_vars

\* load(hook) calls alone, on every list of the resolver model.
InitResolve ==
    /\ Constructed
    /\ scope = Scope(ResolveLists, {}, Hooks \cup {UnknownHook}, 0, 0, 0, 0, 1)

NextResolve == NextLoad \/ \E p \in passes : Settle(p)

SpecResolve == InitResolve /\ [][NextResolve]_vars

\* load(hook) calls alone, on packages with any descriptor and any loader.
InitVariant ==
    /\ Constructed
    /\ scope = Scope(VariantLists, {}, Hooks \cup {UnknownHook}, 0, 0, 0, 0, 1)

SpecVariant == InitVariant /\ [][NextResolve]_vars

\* load(hook) calls alone, whose finder.find() resolves or rejects.
InitFind ==
    /\ Constructed
    /\ scope = Scope(FindLists, {}, Hooks, 0, 0, 0, 0, FindLoads)

SpecFind == InitFind /\ [][NextResolve]_vars

--------------------------------------------------------------------------
(* The session's properties. *)

\* A step in which finder.watch threw.
Threw == watchCalls' = watchCalls + 1 /\ subjects' = subjects

\* A step that is a call of watch(hook) or a read of packagesStream.
IsDemand == demands' = demands + 1

\* A step that is a call of stopWatching().
IsStop == stops' = stops + 1

C1_Always ==
    /\ Cardinality(LiveSubscriptions) <= 1
    /\ Len(subjects) <= stops + 1
    /\ (stops = 0 /\ demands >= 1 /\ watchCalls = Len(subjects)) => watchCalls = 1

C1_Step == (IsDemand /\ isWatching) =>
               /\ watchCalls' = watchCalls
               /\ subjects' = subjects
               /\ activeWatch' = activeWatch

\* C1: at most one Package Source subscription is live at any time, and
\* the demands (watch(hook) calls, packagesStream reads) made with no
\* stopWatching() in between share one finder.watch call: a demand made
\* while Active calls finder.watch no more and keeps the session. (A
\* finder.watch call that throws establishes nothing and is not counted.)
C1_SharedSession == []C1_Always /\ [][C1_Step]_vars

\* Two demands, no stop, one finder.watch call, one live subscription.
C1_Witness ==
    /\ demands = 2 /\ stops = 0 /\ watchCalls = 1
    /\ isWatching /\ LiveSubscriptions = {1}

C2_Always ==
    /\ demands = 0 => ~isWatching
    /\ isWatching <=> LiveSubscriptions # {}

C2_Step ==
    /\ (IsDemand /\ ~Threw) => isWatching'
    /\ IsStop => ~isWatching'
    /\ (IsDemand /\ ~isWatching) => watchCalls' = watchCalls + 1
    /\ (IsDemand /\ ~isWatching /\ ~Threw) =>
           /\ Len(subjects') = Len(subjects) + 1
           /\ activeWatch' = [close |-> Len(subjects'), subject |-> Len(subjects')]
           /\ LiveSubscriptions' = {Len(subjects')}

\* C2: isWatching is false before any demand, true after a demand (one in
\* which finder.watch did not throw), false right after stopWatching(),
\* and a demand made while Idle makes a new finder.watch call and holds
\* the new session; isWatching is true exactly when a subscription of the
\* Package Source is live.
C2_Toggling == []C2_Always /\ [][C2_Step]_vars

\* Active again, on a second subscription, after a stop.
C2_Witness ==
    /\ stops >= 1 /\ isWatching
    /\ Len(subjects) = 2 /\ closeCalls[1] = 1 /\ activeWatch.subject = 2

C3_Always == \A s \in 1..Len(closeCalls) : closeCalls[s] <= 1

C3_Step ==
    /\ (IsStop /\ isWatching) =>
           /\ closeCalls' = [closeCalls EXCEPT ![activeWatch.close] = closeCalls[activeWatch.close] + 1]
           /\ activeWatch' = NoWatch
    /\ (IsStop /\ ~isWatching) =>
           UNCHANGED << activeWatch, subjects, watchCalls, closeCalls, findCalls,
                        updates, subscribers, passes, emissions, loads, returns, demands >>
    /\ ~IsStop => \A s \in 1..Len(closeCalls) : closeCalls'[s] = closeCalls[s]

\* C3: stopWatching() while Active invokes the cancellation function of the
\* current session once and discards the session; while Idle it changes
\* nothing; no other operation invokes a cancellation function, and none
\* is ever invoked twice.
C3_StopIdempotent == []C3_Always /\ [][C3_Step]_vars

\* Two stopWatching() calls in a row after one session: one cancellation.
C3_Witness ==
    /\ stops = 2 /\ demands = 1 /\ ~isWatching
    /\ Len(closeCalls) = 1 /\ closeCalls[1] = 1

--------------------------------------------------------------------------
(* The properties of load(hook). *)

\* The passes of load(hook) calls, and those of watch(hook) consumers.
LoadPasses == {p \in passes : p.sub = 0}
WatchPasses == {p \in passes : p.sub # 0}

\* A step of a load(hook) call: the call itself, the settlement of its
\* finder.find(), the settlement of a pkg.load it awaits, or the return of
\* its pass.
IsLoadStep ==
    \/ findCalls' # findCalls
    \/ loads' # loads
    \/ LoadPasses' # LoadPasses
    \/ returns' # returns

C4_Step ==
    /\ IsLoadStep =>
           /\ UNCHANGED << activeWatch, subjects, watchCalls, closeCalls, updates,
                           subscribers, emissions, demands, stops >>
           /\ WatchPasses' = WatchPasses
    /\ findCalls' = findCalls + (Len(loads') - Len(loads))

\* C4: no step of a load(hook) call, successful or not, changes
\* isWatching, calls finder.watch or a cancellation function, changes a
\* subject's package list or emits to a consumer of watch(hook) or
\* packagesStream; each load(hook) call makes one finder.find() call.
C4_LoadFrame == [](findCalls = Len(loads)) /\ [][C4_Step]_vars

\* A load(hook) resolved next to a session whose consumer has received.
C4_Witness ==
    /\ isWatching
    /\ \E i \in 1..Len(subscribers) : subscribers[i].attached /\ subscribers[i].got # <<>>
    /\ \E c \in 1..Len(loads) : loads[c].state = "resolved" /\ loads[c].result # <<>>

--------------------------------------------------------------------------
(* The resolver's properties, stated on the load(hook) calls that resolved:
   the snapshot is the package list P, the result is resolve(P, H). *)

\* The descriptors of P that implement H, by package and place in it.
Slots(P, H) ==
    {s \in UNION {{<<i, j>> : j \in 1..Len(P[i].extensions)} : i \in 1..Len(P)} :
        P[s[1]].extensions[s[2]].hook = H}

Descriptor(P, s) == P[s[1]].extensions[s[2]]

\* How the load of that descriptor settles.
Settlement(P, s) == P[s[1]].load[Descriptor(P, s)]

\* The entry the descriptor is to give: its fields, the package's id, and
\* the value or the error of its load.
Entry(P, s) ==
    IF Settlement(P, s).ok
    THEN [hook |-> Descriptor(P, s).hook, name |-> Descriptor(P, s).name,
          packageId |-> P[s[1]].id, value |-> Settlement(P, s).v]
    ELSE [hook |-> Descriptor(P, s).hook, name |-> Descriptor(P, s).name,
          packageId |-> P[s[1]].id, error |-> Settlement(P, s).v]

\* Package order, then descriptor order.
Before(a, b) == a[1] < b[1] \/ (a[1] = b[1] /\ a[2] < b[2])

Rank(P, H, s) == Cardinality({r \in Slots(P, H) : Before(r, s)}) + 1

Resolved == {c \in 1..Len(loads) : loads[c].state = "resolved"}

\* C5: resolve(P, H) has one entry per descriptor of P that implements H,
\* no more and no fewer: Errored with the loader's error where the load
\* failed, Loaded with the value where it succeeded, whatever became of
\* the other loads.
C5_FailureIsolation ==
    \A c \in Resolved :
        LET P == loads[c].snapshot
            H == loads[c].hook
            R == loads[c].result
        IN  /\ Len(R) = Cardinality(Slots(P, H))
            /\ \A s \in Slots(P, H) :
                   Cardinality({k \in 1..Len(R) : R[k] = Entry(P, s)}) =
                   Cardinality({r \in Slots(P, H) : Entry(P, r) = Entry(P, s)})

\* A result in which a failed load is followed by a successful one.
C5_Witness ==
    \E c \in Resolved : \E k, m \in 1..Len(loads[c].result) :
        /\ k < m
        /\ isErrored(loads[c].result[k]) /\ ~isLoaded(loads[c].result[k])
        /\ isLoaded(loads[c].result[m]) /\ ~isErrored(loads[c].result[m])

\* C6: the entries of resolve(P, H) stand in package order and, within a
\* package, in descriptor order, whichever loads fail.
C6_OrderPreserved ==
    \A c \in Resolved :
        LET P == loads[c].snapshot
            H == loads[c].hook
            R == loads[c].result
        IN  \A s \in Slots(P, H) :
               /\ Rank(P, H, s) <= Len(R)
               /\ R[Rank(P, H, s)].packageId = P[s[1]].id
               /\ R[Rank(P, H, s)].name = Descriptor(P, s).name

\* A result with two entries of one package after one of another package.
C6_Witness ==
    \E c \in Resolved :
        LET R == loads[c].result
        IN  /\ Len(R) >= 3
            /\ R[1].packageId # R[2].packageId
            /\ R[2].packageId = R[3].packageId /\ R[2].name # R[3].name

\* C7: no descriptor of another hook appears in resolve(P, H), no loader is
\* invoked for one, and load(H) on a snapshot without a descriptor for H
\* awaits no load and resolves to the empty list (its pass has returned
\* the empty list, or it is resolved with it).
C7_HookFiltering ==
    /\ \A c \in Resolved : \A k \in 1..Len(loads[c].result) :
           loads[c].result[k].hook = loads[c].hook
    /\ \A p \in passes : Awaited(p).hook = p.hook
    /\ \A c \in 1..Len(loads) :
           (loads[c].state \in {"resolving", "resolved"}
              /\ Slots(loads[c].snapshot, loads[c].hook) = {})
           => /\ \A p \in passes : ~(p.sub = 0 /\ p.call = c)
              /\ IF loads[c].state = "resolved"
                 THEN loads[c].result = <<>>
                 ELSE \E n \in 1..Len(returns) : returns[n] = Return(c, <<>>)

\* A load(hook) that resolved to an empty list on packages whose every
\* descriptor is of another hook.
C7_Witness ==
    \E c \in Resolved :
        /\ loads[c].result = <<>>
        /\ Len(loads[c].snapshot) = 2
        /\ \A i \in 1..2 : loads[c].snapshot[i].extensions # <<>>

--------------------------------------------------------------------------
(* The streams' properties. *)

\* resolve(P, H): the entries of the descriptors of P that implement H, in
\* package order and then descriptor order.
Resolution(P, H) ==
    [k \in 1..Cardinality(Slots(P, H)) |->
        Entry(P, CHOOSE s \in Slots(P, H) : Rank(P, H, s) = k)]

Attached == {i \in 1..Len(subscribers) : subscribers[i].attached}

\* The consumers of watch(hook) streams among them.
Watching == {i \in Attached : subscribers[i].hook # Meta}

\* C8: a consumer receives the emissions of watch(hook) in the order in
\* which the Package Source delivered their package lists.
C8_EmissionOrder ==
    \A i \in Watching : \A a, b \in 1..Len(subscribers[i].got) :
        a < b => subscribers[i].got[a].upd < subscribers[i].got[b].upd

\* Consumer i has received resolve(L, hook) for the k-th delivered list L,
\* or that result is queued for emission, or the pass that computes it for
\* this consumer is awaiting a load (its emission then needs no further
\* delivery).
Served(i, k) ==
    \/ \E n \in 1..Len(subscribers[i].got) :
           subscribers[i].got[n] =
               Emission(k, Resolution(updates[k].packages, subscribers[i].hook))
    \/ \E n \in 1..Len(emissions) :
           emissions[n] =
               Result(i, k, Resolution(updates[k].packages, subscribers[i].hook))
    \/ \E p \in passes :
           /\ p.sub = i /\ p.upd = k
           /\ p.packages = updates[k].packages /\ p.hook = subscribers[i].hook

\* C9: a consumer that subscribed to watch(hook) after the source had
\* delivered a list is served resolve(L, hook) for the list L delivered
\* last before it subscribed, with no further delivery, and nothing for
\* the lists delivered before L.
C9_ReplayLatest ==
    \A i \in Watching :
        /\ subscribers[i].from > 0 => Served(i, subscribers[i].from)
        /\ \A n \in 1..Len(subscribers[i].got) :
               subscribers[i].got[n].upd >= subscribers[i].from
        /\ \A p \in passes : p.sub = i => p.upd >= subscribers[i].from
        /\ \A n \in 1..Len(emissions) :
               emissions[n].sub = i => emissions[n].upd >= subscribers[i].from

\* A consumer that subscribed after two deliveries and has received the
\* resolution of the second, and only that.
C9_Witness ==
    \E i \in Watching :
        /\ subscribers[i].from = 2
        /\ updates[1].packages # updates[2].packages
        /\ subscribers[i].got =
               <<Emission(2, Resolution(updates[2].packages, subscribers[i].hook))>>
        /\ subscribers[i].got[1].value # <<>>

C10_Always ==
    \A i \in Attached : \A k \in 1..Len(updates) :
        (updates[k].session = subscribers[i].subject /\ k > subscribers[i].from) =>
            IF subscribers[i].hook = Meta
            THEN \E n \in 1..Len(subscribers[i].got) :
                     subscribers[i].got[n] = Emission(k, Metadata(updates[k].packages))
            ELSE Served(i, k)

C10_Step ==
    \A i \in 1..Len(subscribers) :
        (subscribers[i].attached /\ ~subscribers'[i].attached) =>
            /\ UNCHANGED << activeWatch, closeCalls, subjects, watchCalls, updates,
                            passes >>
            /\ SelectSeq(emissions', LAMBDA e : e.sub # i) =
                   SelectSeq(emissions, LAMBDA e : e.sub # i)
            /\ \A j \in 1..Len(subscribers) : j # i => subscribers'[j] = subscribers[j]

\* C10: a consumer's cancellation, even the last consumer's, invokes no
\* cancellation function of the source and leaves isWatching, the subjects
\* and the other consumers as they were; every consumer still subscribed
\* is served each list delivered after it subscribed.
C10_LocalCancellation == []C10_Always /\ [][C10_Step]_vars

\* The first consumer has cancelled; the session is Active and the second
\* consumer has received a list delivered after it subscribed.
C10_Witness ==
    /\ isWatching
    /\ Len(subscribers) = 2 /\ subscribers[1] = Gone
    /\ subscribers[2].attached /\ subscribers[2].from = 0
    /\ \E n \in 1..Len(subscribers[2].got) : subscribers[2].got[n].upd = 1

--------------------------------------------------------------------------
(* The failures of load(hook). *)

\* The passes of the c-th load(hook) call.
PassesOf(c) == {p \in passes : p.sub = 0 /\ p.call = c}

C11_Always ==
    \A c \in 1..Len(loads) :
        /\ loads[c].state \in {"finding", "rejected"} =>
               (PassesOf(c) = {} /\ \A n \in 1..Len(returns) : returns[n].call # c)
        /\ loads[c].state = "rejected" => loads[c].result = FindError
        /\ loads[c].state = "resolving" =>
               \/ \E p \in PassesOf(c) :
                      p.packages = loads[c].snapshot /\ p.hook = loads[c].hook
               \/ \E n \in 1..Len(returns) :
                      returns[n] =
                          Return(c, Resolution(loads[c].snapshot, loads[c].hook))
        /\ loads[c].state = "resolved" =>
               loads[c].result = Resolution(loads[c].snapshot, loads[c].hook)

C11_Step ==
    \A c \in 1..Len(loads) :
        /\ loads[c].state = "rejected" => loads'[c] = loads[c]
        /\ loads[c].state \in {"resolving", "resolved"} =>
               /\ loads'[c].state \in {"resolving", "resolved"}
               /\ loads'[c].snapshot = loads[c].snapshot
        /\ (loads[c].state = "finding" /\ loads'[c].state = "rejected") =>
               passes' = passes

\* C11: a load(hook) whose finder.find() failed is rejected with the error
\* of find() and never has a pkg.load in flight; a load(hook) whose find()
\* resolved is never rejected: it awaits the loads of its pass, then the
\* list its pass returned, resolve(snapshot, hook), and is resolved with
\* it, failed loads being entries of it.
C11_ErrorPropagation == []C11_Always /\ [][C11_Step]_vars

\* One load(hook) rejected with the error of find(), another resolved
\* with a result whose loads all failed.
C11_Witness ==
    \E c, d \in 1..Len(loads) :
        /\ loads[c].state = "rejected" /\ loads[c].result = FindError
        /\ loads[d].state = "resolved" /\ loads[d].result # <<>>
        /\ \A k \in 1..Len(loads[d].result) :
               isErrored(loads[d].result[k]) /\ ~isLoaded(loads[d].result[k])

--------------------------------------------------------------------------
(* The failures of the Package Source. *)

\* C12: once the source of a session has failed for good, no consumer is
\* left subscribed to a watch(hook) stream or to the packagesStream of
\* that session without the failure (a stream that ended with an error
\* has no subscriber left), and the failure makes no finder.watch call.
C12_FailurePropagates ==
    \A i \in Attached : subscribers[i].subject \notin failed

--------------------------------------------------------------------------
(* The two variants of an extension. *)

\* C13: the entry of resolve(P, H) for a descriptor carries the
\* descriptor's fields other than packageId, value and error, and the id
\* of its package as packageId; it satisfies isLoaded and not isErrored
\* when the load succeeded, isErrored and not isLoaded when it failed,
\* whatever further fields the descriptor has.
C13_VariantExclusivity ==
    \A c \in Resolved :
        LET P == loads[c].snapshot
            H == loads[c].hook
            R == loads[c].result
        IN  \A s \in Slots(P, H) :
                LET e == R[Rank(P, H, s)] IN
                /\ \A f \in DOMAIN Descriptor(P, s) \ {"packageId", "value", "error"} :
                       f \in DOMAIN e /\ e[f] = Descriptor(P, s)[f]
                /\ e.packageId = P[s[1]].id
                /\ isLoaded(e) # isErrored(e)
                /\ isLoaded(e) = Settlement(P, s).ok

--------------------------------------------------------------------------
(* packagesStream. *)

\* The consumers of packagesStream.
Listing == {i \in Attached : subscribers[i].hook = Meta}

\* The list the k-th emission source is: the initial value of the subject
\* for 0, the k-th delivered list otherwise.
Held(k) == IF k = 0 THEN <<>> ELSE updates[k].packages

\* The deliveries to subject s after the k-th of all deliveries.
Later(s, k) == {j \in (k + 1)..Len(updates) : updates[j].session = s}

C14_Always ==
    \A i \in Listing :
        LET got == subscribers[i].got
            s == subscribers[i].subject
            from == subscribers[i].from
        IN  /\ Len(got) = 1 + Cardinality(Later(s, from))
            /\ got[1].upd = from
            /\ \A n \in 2..Len(got) :
                   got[n].upd \in Later(s, from) /\ got[n - 1].upd < got[n].upd
            /\ \A n \in 1..Len(got) :
                   LET L == Held(got[n].upd) IN
                   /\ got[n].upd > 0 => updates[got[n].upd].session = s
                   /\ Len(got[n].value) = Len(L)
                   /\ \A j \in 1..Len(L) : got[n].value[j] = L[j].metadata

C14_Step == (IsDemand /\ isWatching) => (watchCalls' = watchCalls /\ subjects' = subjects)

\* C14: a consumer of packagesStream has received, first, the metadata of
\* the list its session held when it subscribed, then the metadata of each
\* list delivered to the session since, one emission per list and in the
\* order of delivery; each emission has the metadata of package i of its
\* list at place i; a read of packagesStream while Active calls
\* finder.watch no more.
C14_Projection == []C14_Always /\ [][C14_Step]_vars

\* A consumer of packagesStream that subscribed after one delivery and
\* has received the metadata of that list and of the two-package list
\* delivered next.
C14_Witness ==
    \E i \in Listing :
        /\ subscribers[i].from = 1
        /\ Len(subscribers[i].got) = 2
        /\ Len(subscribers[i].got[1].value) = 1
        /\ subscribers[i].got[2] = Emission(2, <<PkgA.metadata, PkgB.metadata>>)

--------------------------------------------------------------------------
(* The loads of one pass. *)

\* The place, in package order and then descriptor order, of the
\* descriptor whose load pass p has invoked and is awaiting.
Place(p) ==
    Cardinality({s \in Slots(p.packages, p.hook) : s[1] < p.pkg}) + p.ext

C15_Always ==
    /\ \A c \in 1..Len(loads) : Cardinality(PassesOf(c)) <= 1
    /\ \A p \in passes :
           /\ Place(p) \in 1..Cardinality(Slots(p.packages, p.hook))
           /\ Len(p.extensions) = Place(p) - 1
           /\ \A k \in 1..Len(p.extensions) :
                  p.extensions[k] = Resolution(p.packages, p.hook)[k]

C15_Step ==
    \A p \in passes : \A q \in passes' :
        (p.sub = q.sub /\ p.call = q.call /\ p.upd = q.upd /\ q # p) =>
            /\ p \notin passes'
            /\ Place(q) = Place(p) + 1
            /\ Len(q.extensions) = Len(p.extensions) + 1

\* C15: a pass of resolve(P, H) awaits one load at a time: the loader of
\* the descriptor at place k + 1 is invoked by the step in which the load
\* of the descriptor at place k settles, and while it is pending the k
\* entries before it, Loaded or Errored, have all been pushed.
C15_SequentialLoading == []C15_Always /\ [][C15_Step]_vars

\* A pass awaiting the third load of its list, in its second package,
\* after a load that failed.
C15_Witness ==
    \E p \in passes :
        /\ Place(p) = 3 /\ p.pkg = 2
        /\ \E k \in 1..Len(p.extensions) : isErrored(p.extensions[k])

--------------------------------------------------------------------------
(* The sessions that follow a stopWatching(). *)

\* The delivery k, or the initial value (0), is of session s.
OfSession(k, s) == k = 0 \/ updates[k].session = s

C16_Always ==
    /\ \A s \in 1..Len(subjects) :
           subjects[s] = Held(LastUpdate(s))
    /\ \A i \in Attached :
           /\ OfSession(subscribers[i].from, subscribers[i].subject)
           /\ \A n \in 1..Len(subscribers[i].got) :
                  /\ OfSession(subscribers[i].got[n].upd, subscribers[i].subject)
                  /\ subscribers[i].got[n].upd = 0 => subscribers[i].got[n].value = <<>>
           /\ \A p \in passes :
                  p.sub = i => (p.upd # 0 /\ OfSession(p.upd, subscribers[i].subject)
                                  /\ p.packages = updates[p.upd].packages)
           /\ \A n \in 1..Len(emissions) :
                  emissions[n].sub = i =>
                      /\ OfSession(emissions[n].upd, subscribers[i].subject)
                      /\ emissions[n].upd = 0 => emissions[n].value = <<>>

C16_Step ==
    (IsDemand /\ ~isWatching /\ ~Threw) =>
        LET s == Len(subjects') IN
        \/ subjects'[s] = <<>> /\ updates' = updates
        \/ updates' = Append(updates, [session |-> s, packages |-> subjects'[s]])

\* C16: the subject of a session holds the list delivered last to that
\* session, the empty list until there is one: a session established
\* after stopWatching() starts empty, and a consumer of its streams is
\* emitted, and has passes running, only for lists delivered to that
\* session and for its empty initial value.
C16_FreshSession == []C16_Always /\ [][C16_Step]_vars

\* The first session was delivered a list and stopped; a consumer of a
\* stream of the second session has received the empty list.
C16_Witness ==
    /\ Len(subjects) = 2 /\ closeCalls[1] = 1
    /\ Len(updates) = 1 /\ updates[1].session = 1
    /\ \E i \in Attached :
           subscribers[i].subject = 2 /\ subscribers[i].got = <<Emission(0, <<>>)>>

--------------------------------------------------------------------------
(* The passes of watch(hook). *)

\* The passes started by a delivery (not by a replay) for consumers that
\* are still subscribed.
DeliveryPasses ==
    {p \in WatchPasses : p.sub \in Attached /\ p.upd > subscribers[p.sub].from}

\* C17: for a list delivered to a session, getImplementations is run once
\* for each hook watched on it, however many consumers the watch(hook)
\* stream has: no two passes are in flight for the same delivery and the
\* same hook.
C17_OncePerHookWatch ==
    \A p, q \in DeliveryPasses :
        (p.upd = q.upd /\ p.hook = q.hook
           /\ subscribers[p.sub].subject = subscribers[q.sub].subject) => p = q

\* Delivery k was made to the subject of consumer i of watch(hook) after
\* it subscribed.
Due(i, k) ==
    /\ updates[k].session = subscribers[i].subject
    /\ k > subscribers[i].from

\* No pass is awaiting a load and no result is waiting to be emitted.
Quiet == WatchPasses = {} /\ emissions = <<>>

C18_Always ==
    \A i \in Watching : \A k \in 1..Len(updates) :
        /\ Cardinality({n \in 1..Len(subscribers[i].got) :
                           subscribers[i].got[n].upd = k})
             + Cardinality({n \in 1..Len(emissions) :
                              emissions[n].sub = i /\ emissions[n].upd = k})
             + Cardinality({p \in passes : p.sub = i /\ p.upd = k}) <= 1
        /\ \A n \in 1..Len(subscribers[i].got) :
               subscribers[i].got[n].upd = k =>
                   subscribers[i].got[n].value =
                       Resolution(updates[k].packages, subscribers[i].hook)
        /\ Due(i, k) => Served(i, k)

C18_Step ==
    /\ updates' # updates =>
           /\ passes \subseteq passes'
           /\ Len(emissions') >= Len(emissions)
           /\ SubSeq(emissions', 1, Len(emissions)) = emissions
    /\ \A i \in Attached :
           subscribers'[i].attached =>
               \A n \in 1..Len(subscribers[i].got) :
                   subscribers'[i].got[n] = subscribers[i].got[n]

\* C18: for each list L delivered to its session after it subscribed, a
\* consumer of watch(hook) that stays subscribed has exactly one of: the
\* emission resolve(L, hook) received, that result queued for emission, a
\* pass on L in flight; a delivery removes no pass and no queued result,
\* and what a consumer has received is not replaced. When every awaited
\* load settles, the passes and the queue run empty again and again: by
\* then each of these emissions has been received, once.
C18_NoLostUpdate ==
    /\ []C18_Always
    /\ [][C18_Step]_vars
    /\ []<>Quiet

\* A consumer that has received the results for two deliveries made after
\* it subscribed, the second delivery's first: the second list arrived
\* while the pass of the first was in flight.
C18_Witness ==
    \E i \in Watching :
        /\ subscribers[i].from = 0
        /\ \E n \in 1..Len(subscribers[i].got) :
               /\ n > 1
               /\ subscribers[i].got[n].upd = 1 /\ subscribers[i].got[n].value # <<>>
               /\ subscribers[i].got[n - 1].upd = 2 /\ subscribers[i].got[n - 1].value # <<>>

--------------------------------------------------------------------------
(* A finder.watch call that throws. *)

\* The finder.watch calls that threw.
Thrown == watchCalls - Len(subjects)

C19_Always ==
    /\ Len(subjects) <= watchCalls
    /\ Len(closeCalls) = Len(subjects)
    /\ isWatching => activeWatch.subject \in 1..Len(subjects)
    /\ Len(subjects) = 0 => ~isWatching

C19_Step ==
    /\ (IsDemand /\ Threw) =>
           /\ ~isWatching /\ ~isWatching'
           /\ UNCHANGED << activeWatch, subjects, closeCalls, updates, subscribers,
                           passes, emissions >>
           /\ Streams' = Streams
    /\ (IsStop /\ ~isWatching) => closeCalls' = closeCalls
    /\ (IsDemand /\ ~isWatching) => watchCalls' = watchCalls + 1
    /\ watchCalls' # watchCalls => (IsDemand /\ ~isWatching)

\* C19: a demand whose finder.watch call throws hands out no stream and
\* stores no session: isWatching is false before and after it, a
\* stopWatching() that follows invokes no cancellation function, and the
\* next demand, made while Idle, calls finder.watch again.
C19_FailedEstablishment == []C19_Always /\ [][C19_Step]_vars

\* finder.watch threw in the first demand; a stopWatching() followed and
\* cancelled nothing; the second demand called finder.watch again and
\* holds the session.
C19_Witness ==
    /\ demands = 2 /\ stops = 1 /\ watchCalls = 2 /\ Thrown = 1
    /\ closeCalls = <<0>> /\ isWatching /\ activeWatch.subject = 1

--------------------------------------------------------------------------
(* The streams of a session that was stopped. *)

\* The sessions whose cancellation function was invoked.
Stopped == {s \in 1..Len(subjects) : closeCalls[s] > 0}

\* A step in which a consumer subscribes.
IsSubscribe == Len(subscribers') = Len(subscribers) + 1

C20_Always ==
    \A i \in Attached :
        subscribers[i].subject \in Stopped =>
            /\ \A n \in 1..Len(subscribers[i].got) :
                   subscribers[i].got[n].upd \in
                       {0} \cup {k \in 1..Len(updates) :
                                   updates[k].session = subscribers[i].subject}
            /\ \A p \in passes :
                   p.sub = i => updates[p.upd].session = subscribers[i].subject
            /\ \A n \in 1..Len(emissions) :
                   emissions[n].sub = i =>
                       OfSession(emissions[n].upd, subscribers[i].subject)

C20_Step ==
    /\ IsStop => UNCHANGED << subscribers, passes, emissions, subjects >>
    /\ IsSubscribe =>
           /\ UNCHANGED << activeWatch, subjects, watchCalls, closeCalls, updates >>
           /\ subscribers'[Len(subscribers')].subject \in 1..Len(subjects)
    /\ \A s \in Stopped :
           /\ subjects'[s] = subjects[s]
           /\ LastUpdate(s)' = LastUpdate(s)
           /\ s \in Stopped'

\* C20: stopWatching() ends no stream: the consumers of the session stay
\* subscribed and its passes go on. A stopped session is delivered no
\* further list, so the consumers of its streams, those that subscribe
\* after the stop as well, are emitted only what that session was
\* delivered; subscribing calls finder.watch no more and leaves
\* isWatching and every subject as they are.
C20_BoundToSession == []C20_Always /\ [][C20_Step]_vars

\* A consumer of the first session is still subscribed after the stop
\* and has received nothing of the list delivered to the second session.
C20_Witness ==
    /\ Stopped = {1} /\ isWatching /\ activeWatch.subject = 2
    /\ Len(updates) = 1 /\ updates[1].session = 2 /\ subjects[2] # <<>>
    /\ \E i \in Attached :
           subscribers[i].subject = 1 /\ subscribers[i].got = <<Emission(0, <<>>)>>

==========================================================================
